---- MODULE Spec2Model ----
(***************************************************************************)
(* Model of rag.py: the content-hash rebuild trigger of RAGSystem          *)
(* (_get_documents_hash, _build_or_load_index), the query method and the   *)
(* interactive session loop of the main program.                          *)
(*                                                                         *)
(* The filesystem (./data, ./storage, ./storage/doc_hash.sha256) and the   *)
(* environment are state shared by successive runs of the program; one    *)
(* run at a time executes, and the corpus is edited from outside at any   *)
(* point between two steps of a run.                                      *)
(***************************************************************************)
EXTENDS Integers, Sequences, FiniteSets, TLC

(***************************************************************************)
(* Bounds of the model.                                                    *)
(***************************************************************************)
MaxFiles == 2
\* external corpus edits in one behaviour
MaxEdits == 1
\* runs of the program in one behaviour
MaxStarts == 2
\* lines read by input() in one run
MaxInputs == 2

\* similarity_top_k of the query engine
SimilarityTopK == 3

(***************************************************************************)
(* The corpus ./data: the files' contents in os.walk order.  A content is  *)
(* a sequence of bytes; an empty file and a one-byte file are enough to     *)
(* tell corpora apart and to move a byte across a file boundary.           *)
(***************************************************************************)
FileContents == {<<>>, <<1>>}

RECURSIVE SeqsUpTo(_, _)
SeqsUpTo(S, n) ==
    IF n = 0 THEN {<<>>}
    ELSE LET shorter == SeqsUpTo(S, n - 1)
         IN  shorter \cup {Append(s, x) : s \in {t \in shorter : Len(t) = n - 1}, x \in S}

Corpora == SeqsUpTo(FileContents, MaxFiles)

(***************************************************************************)
(* _get_documents_hash: one sha256 hasher is updated with every file's     *)
(* bytes in walk order, so the digest is that of the concatenation of the  *)
(* contents.  sha256 is taken collision-free: the digest is represented    *)
(* by the byte stream that was hashed.                                     *)
(***************************************************************************)
RECURSIVE HasherUpdateAll(_, _)
HasherUpdateAll(stream, files) ==
    IF files = <<>> THEN stream
    ELSE HasherUpdateAll(stream \o Head(files), Tail(files))

GetDocumentsHash(files) == [kind |-> "digest", of |-> HasherUpdateAll(<<>>, files)]

(***************************************************************************)
(* Contents of the sidecar file doc_hash.sha256.                           *)
(*   absent      no such file (open raises FileNotFoundError)              *)
(*   unreadable  the file is there but open/read raises another error      *)
(*   empty       truncated by open(.., "w"), nothing written yet           *)
(*   digest      the hexdigest text written by a rebuild                   *)
(* The text of a file is a record [kind, of]; the sidecar also carries the  *)
(* run that wrote it (0: before the first run of the behaviour).           *)
(***************************************************************************)
Text(f) == [kind |-> f.kind, of |-> f.of]

SidecarAbsent == [kind |-> "absent", of |-> <<>>, run |-> 0]

SidecarUnreadable == [kind |-> "unreadable", of |-> <<>>, run |-> 0]

SidecarEmpty(r) == [kind |-> "empty", of |-> <<>>, run |-> r]

SidecarDigest(h, r) == [kind |-> "digest", of |-> h.of, run |-> r]

(***************************************************************************)
(* The persisted index in ./storage: the documents it was built from, how  *)
(* much of it is on storage, and the run that wrote it (0: before the      *)
(* first run of the behaviour).                                            *)
(***************************************************************************)
NoStoredIndex == [state |-> "none", docs |-> <<>>, run |-> 0]

StoredIndex(st, docs, r) == [state |-> st, docs |-> docs, run |-> r]

\* Python's None for an index, a query engine and a hash
NoIndex == [state |-> "none", docs |-> <<>>]

NoEngine == [index |-> NoIndex, top_k |-> 0]

NoHash == [kind |-> "none", of |-> <<>>]

(***************************************************************************)
(* Lines typed at the prompt, as sequences of characters.                  *)
(***************************************************************************)
Inputs ==
    { <<"e", "x", "i", "t">>,
      <<"Q", "u", "I", "T">>,
      <<" ", "e", "x", "i", "t">>,
      <<>>,
      <<"h", "i">> }

\* str.lower on one character
LowerChar(c) ==
    CASE c = "E" -> "e"
      [] c = "X" -> "x"
      [] c = "I" -> "i"
      [] c = "T" -> "t"
      [] c = "Q" -> "q"
      [] c = "U" -> "u"
      [] c = "H" -> "h"
      [] OTHER -> c

Lower(s) == [k \in 1..Len(s) |-> LowerChar(s[k])]

Sentinels == { <<"e", "x", "i", "t">>, <<"q", "u", "i", "t">> }

NothingTyped == [n |-> 0, line |-> <<>>]

VARIABLES
    apiKey,            \* os.getenv("GEMINI_API_KEY"): "unset", "empty" or "set"
    corpus,            \* ./data
    storageExists,     \* os.path.exists("./storage")
    stored,            \* the index persisted in ./storage
    sidecar,           \* ./storage/doc_hash.sha256
    pc,                \* position of the running program
    rebuild,           \* local of _build_or_load_index
    current_hash,      \* local of _build_or_load_index
    saved_hash,        \* local of _build_or_load_index
    documents,         \* local of _build_or_load_index
    index,             \* local of _build_or_load_index
    self_index,        \* self.index
    self_query_engine, \* self.query_engine
    user_input,        \* local of the session loop
    out,               \* last message printed
    exitCode,          \* exit status of the run, -1 while it runs
    branch,            \* branch of "if rebuild" taken by this run
    failedAt,          \* where this run raised an uncaught exception
    readied,           \* this run printed the ready banner
    queried_with,      \* query engine used by the last rag.query of this run
    typed,             \* lines typed at the prompt of this run: how many, and the last
    starts,            \* runs started so far
    edits,             \* corpus edits so far
    inputs,            \* input() calls of this run
    queries,           \* rag.query calls of this run
    hashes,            \* _get_documents_hash calls of this run
    editedSinceHash,   \* the corpus was edited after the last _get_documents_hash
    editedSinceReady,  \* the corpus was edited after the last ready banner
    prevReadied,       \* the previous run printed the ready banner
    decidedOn          \* what the freshness check of this run saw

vars == <<apiKey, corpus, storageExists, stored, sidecar, pc, rebuild, current_hash,
          saved_hash, documents, index, self_index, self_query_engine, user_input,
          out, exitCode, branch, failedAt, readied, queried_with, typed, starts,
          edits,
          inputs, queries, hashes, editedSinceHash, editedSinceReady,
          prevReadied, decidedOn>>

storageVars == <<storageExists, stored, sidecar>>

localVars == <<rebuild, current_hash, saved_hash, documents, index>>

handleVars == <<self_index, self_query_engine>>

sessionVars == <<user_input, inputs, queries, queried_with>>

\* the memory of the process
processVars == <<localVars, handleVars, sessionVars>>

runVars == <<apiKey, starts, prevReadied>>

editVars == <<corpus, edits, editedSinceHash, editedSinceReady>>

ghostVars == <<branch, readied, decidedOn, hashes, typed>>

EnvKeys == {"unset", "empty", "set"}

\* the memory of a process that has not run yet, or is gone
Blank ==
    /\ rebuild' = FALSE
    /\ current_hash' = NoHash
    /\ saved_hash' = NoHash
    /\ documents' = <<>>
    /\ index' = NoIndex
    /\ self_index' = NoIndex
    /\ self_query_engine' = NoEngine
    /\ user_input' = <<>>
    /\ queried_with' = NoEngine
    /\ inputs' = 0
    /\ queries' = 0

(***************************************************************************)
(* The storage a first run can find: none, an empty directory, what a      *)
(* completed rebuild of an earlier or of the present corpus left, or such  *)
(* a store whose sidecar cannot be read.                                   *)
(***************************************************************************)
InitOver(corpora) ==
    /\ apiKey \in EnvKeys
    /\ corpus \in corpora
    /\ \/ storageExists = FALSE /\ stored = NoStoredIndex /\ sidecar = SidecarAbsent
       \/ storageExists = TRUE /\ stored = NoStoredIndex /\ sidecar = SidecarAbsent
       \/ \E c0 \in corpora :
            /\ storageExists = TRUE
            /\ stored = StoredIndex("complete", c0, 0)
            /\ sidecar = SidecarDigest(GetDocumentsHash(c0), 0)
       \/ /\ storageExists = TRUE
          /\ stored = StoredIndex("complete", corpus, 0)
          /\ sidecar = SidecarUnreadable
    /\ pc = "start"
    /\ rebuild = FALSE
    /\ current_hash = NoHash
    /\ saved_hash = NoHash
    /\ documents = <<>>
    /\ index = NoIndex
    /\ self_index = NoIndex
    /\ self_query_engine = NoEngine
    /\ user_input = <<>>
    /\ out = "none"
    /\ exitCode = -1
    /\ branch = "Unknown"
    /\ failedAt = "none"
    /\ readied = FALSE
    /\ queried_with = NoEngine
    /\ typed = NothingTyped
    /\ starts = 1
    /\ edits = 0
    /\ inputs = 0
    /\ queries = 0
    /\ hashes = 0
    /\ editedSinceHash = FALSE
    /\ editedSinceReady = FALSE
    /\ prevReadied = FALSE
    /\ decidedOn = [sinceHash |-> TRUE, sinceReady |-> TRUE]

Init == InitOver(Corpora)

\* the statement at p runs next
Goto(p) == pc' = p /\ UNCHANGED <<exitCode, failedAt>>

\* the process ends with status c after printing m
Exit(c, m) ==
    /\ pc' = "exited"
    /\ exitCode' = c
    /\ out' = m
    /\ Blank
    /\ UNCHANGED <<failedAt, storageVars, runVars, editVars, branch, readied, decidedOn,
                   hashes>>

\* an exception raised at p that nothing catches (in the session: one that
\* "except Exception" does not catch, KeyboardInterrupt) ends the process
\* with a traceback and status 1; the statement at p has changed nothing
Raise(p) ==
    /\ pc' = "crashed"
    /\ exitCode' = 1
    /\ failedAt' = p
    /\ out' = "traceback"
    /\ Blank
    /\ UNCHANGED <<storageVars, runVars, editVars, ghostVars>>

(***************************************************************************)
(* Main program, before the session.                                       *)
(***************************************************************************)
\* CheckConfig that tests "is None" and lets an empty key through
CheckConfigNoneOnly ==
    /\ pc = "start"
    /\ \/ /\ apiKey = "unset"
          /\ Exit(1, "config_error")
          /\ UNCHANGED typed
       \/ /\ apiKey # "unset"
          /\ out' = "initializing"
          /\ Goto("init")
          /\ UNCHANGED <<storageVars, processVars, runVars, editVars, ghostVars>>

\* if not os.getenv("GEMINI_API_KEY"): print(...); exit(1)
\* print(initializing)
CheckConfig ==
    /\ pc = "start"
    /\ \/ /\ apiKey # "set"
          /\ Exit(1, "config_error")
          /\ UNCHANGED typed
       \/ /\ apiKey = "set"
          /\ out' = "initializing"
          /\ Goto("init")
          /\ UNCHANGED <<storageVars, processVars, runVars, editVars, ghostVars>>

\* RAGSystem.__init__ up to _configure_settings: the LLM client, the proxy,
\* the node parser and the embedding model
ConfigureSettings ==
    /\ pc = "init"
    /\ \/ /\ Goto("check_exists")
          /\ UNCHANGED <<out, storageVars, processVars, runVars, editVars, ghostVars>>
       \/ Raise("init")

(***************************************************************************)
(* _build_or_load_index: the freshness check.                              *)
(***************************************************************************)
\* rebuild = False; if os.path.exists(storage_dir): ... else: rebuild = True
CheckStorage ==
    /\ pc = "check_exists"
    /\ IF storageExists
       THEN /\ rebuild' = FALSE
            /\ Goto("hash")
            /\ UNCHANGED decidedOn
       ELSE /\ rebuild' = TRUE
            /\ Goto("branch")
            /\ decidedOn' = [sinceHash |-> editedSinceHash, sinceReady |-> editedSinceReady]
    /\ UNCHANGED <<storageVars, current_hash, saved_hash, documents, index, handleVars,
                   sessionVars, runVars, editVars, out, branch, readied, hashes, typed>>

\* current_hash = self._get_documents_hash(); opening or reading one of the
\* files may raise
ComputeCurrentHash ==
    /\ pc = "hash"
    /\ \/ /\ current_hash' = GetDocumentsHash(corpus)
          /\ hashes' = hashes + 1
          /\ decidedOn' = [sinceHash |-> editedSinceHash, sinceReady |-> editedSinceReady]
          /\ editedSinceHash' = FALSE
          /\ Goto("read_sidecar")
          /\ UNCHANGED <<out, storageVars, rebuild, saved_hash, documents, index,
                         handleVars, sessionVars, runVars, corpus, edits,
                         editedSinceReady, branch, readied, typed>>
       \/ /\ corpus # <<>>
          /\ Raise("hash")

\* ReadSidecar with the comparison inverted (rebuild = current_hash == saved_hash)
ReadSidecarInverted ==
    /\ pc = "read_sidecar"
    /\ \/ /\ sidecar.kind = "absent"
          /\ rebuild' = TRUE
          /\ Goto("branch")
          /\ UNCHANGED <<saved_hash, out, storageVars, current_hash, documents, index,
                         handleVars, sessionVars, runVars, editVars, ghostVars>>
       \/ /\ sidecar.kind = "unreadable"
          /\ Raise("read_sidecar")
       \/ /\ sidecar.kind \in {"empty", "digest"}
          /\ saved_hash' = Text(sidecar)
          /\ rebuild' = (current_hash = Text(sidecar))
          /\ Goto("branch")
          /\ UNCHANGED <<out, storageVars, current_hash, documents, index, handleVars,
                         sessionVars, runVars, editVars, ghostVars>>

\* try: saved_hash = f.read(); rebuild = current_hash != saved_hash
\* except FileNotFoundError: rebuild = True
ReadSidecar ==
    /\ pc = "read_sidecar"
    /\ \/ /\ sidecar.kind = "absent"
          /\ rebuild' = TRUE
          /\ Goto("branch")
          /\ UNCHANGED <<saved_hash, out, storageVars, current_hash, documents, index,
                         handleVars, sessionVars, runVars, editVars, ghostVars>>
       \/ /\ sidecar.kind = "unreadable"
          /\ Raise("read_sidecar")
       \/ /\ sidecar.kind \in {"empty", "digest"}
          /\ saved_hash' = Text(sidecar)
          /\ rebuild' = (current_hash # Text(sidecar))
          /\ Goto("branch")
          /\ UNCHANGED <<out, storageVars, current_hash, documents, index, handleVars,
                         sessionVars, runVars, editVars, ghostVars>>

\* if rebuild: print(rebuild notice) ... else: print(load notice) ...
Branch ==
    /\ pc = "branch"
    /\ IF rebuild
       THEN /\ out' = "rebuild_notice"
            /\ branch' = "Stale"
            /\ Goto("makedirs")
       ELSE /\ out' = "load_notice"
            /\ branch' = "Fresh"
            /\ Goto("load")
    /\ UNCHANGED <<storageVars, processVars, runVars, editVars, readied, decidedOn,
                   hashes, typed>>

(***************************************************************************)
(* _build_or_load_index: the rebuild branch.                               *)
(***************************************************************************)
\* os.makedirs(storage_dir, exist_ok=True)
MakeDirs ==
    /\ pc = "makedirs"
    /\ \/ /\ storageExists' = TRUE
          /\ Goto("read_docs")
          /\ UNCHANGED <<out, stored, sidecar, processVars, runVars, editVars, ghostVars>>
       \/ Raise("makedirs")

\* documents = SimpleDirectoryReader(input_dir="./data").load_data()
ReadDocuments ==
    /\ pc = "read_docs"
    /\ \/ /\ documents' = corpus
          /\ Goto("build")
          /\ UNCHANGED <<out, storageVars, rebuild, current_hash, saved_hash, index,
                         handleVars, sessionVars, runVars, editVars, ghostVars>>
       \/ Raise("read_docs")

\* index = VectorStoreIndex.from_documents(documents)
BuildIndex ==
    /\ pc = "build"
    /\ \/ /\ index' = [state |-> "complete", docs |-> documents]
          /\ Goto("persist")
          /\ UNCHANGED <<out, storageVars, rebuild, current_hash, saved_hash, documents,
                         handleVars, sessionVars, runVars, editVars, ghostVars>>
       \/ Raise("build")

\* PersistBegin of a rebuild that writes the sidecar before the index
PersistBeginAfterSidecar ==
    /\ pc = "persist"
    /\ \/ /\ stored' = StoredIndex("partial", index.docs, starts)
          /\ sidecar' = SidecarDigest(GetDocumentsHash(corpus), starts)
          /\ Goto("persisting")
          /\ UNCHANGED <<out, storageExists, processVars, runVars, editVars, ghostVars>>
       \/ Raise("persist")

\* index.storage_context.persist(persist_dir=storage_dir): the first of the
\* store files is written; what was persisted before is no longer whole
PersistBegin ==
    /\ pc = "persist"
    /\ \/ /\ stored' = StoredIndex("partial", index.docs, starts)
          /\ Goto("persisting")
          /\ UNCHANGED <<out, storageExists, sidecar, processVars, runVars, editVars,
                         ghostVars>>
       \/ Raise("persist")

\* persist, continued: the last of the store files is written
PersistEnd ==
    /\ pc = "persisting"
    /\ \/ /\ stored' = StoredIndex("complete", index.docs, starts)
          /\ Goto("open_sidecar")
          /\ UNCHANGED <<out, storageExists, sidecar, processVars, runVars, editVars,
                         ghostVars>>
       \/ Raise("persisting")

\* with open(hash_file, "w") as f: the file is created or truncated
OpenSidecar ==
    /\ pc = "open_sidecar"
    /\ \/ /\ sidecar' = SidecarEmpty(starts)
          /\ Goto("write_sidecar")
          /\ UNCHANGED <<out, storageExists, stored, processVars, runVars, editVars,
                         ghostVars>>
       \/ Raise("open_sidecar")

\* WriteSidecar that leaves the truncated file without the digest
WriteSidecarNothing ==
    /\ pc = "write_sidecar"
    /\ \/ /\ sidecar' = SidecarEmpty(starts)
          /\ hashes' = hashes + 1
          /\ editedSinceHash' = FALSE
          /\ out' = "index_updated"
          /\ Goto("return")
          /\ UNCHANGED <<storageExists, stored, processVars, runVars, corpus, edits,
                         editedSinceReady, branch, readied, decidedOn, typed>>
       \/ Raise("write_sidecar")

\* f.write(self._get_documents_hash()); print(index updated)
WriteSidecar ==
    /\ pc = "write_sidecar"
    /\ \/ /\ sidecar' = SidecarDigest(GetDocumentsHash(corpus), starts)
          /\ hashes' = hashes + 1
          /\ editedSinceHash' = FALSE
          /\ out' = "index_updated"
          /\ Goto("return")
          /\ UNCHANGED <<storageExists, stored, processVars, runVars, corpus, edits,
                         editedSinceReady, branch, readied, decidedOn, typed>>
       \/ Raise("write_sidecar")

(***************************************************************************)
(* _build_or_load_index: the load branch.  Reading a store that is not     *)
(* whole either raises or yields a handle over what is there.              *)
(***************************************************************************)
\* LoadIndex that swallows a failed load and goes on without an index
LoadIndexSwallowingFailure ==
    /\ pc = "load"
    /\ \/ /\ stored.state # "none"
          /\ index' = [state |-> stored.state, docs |-> stored.docs]
       \/ index' = NoIndex
    /\ Goto("return")
    /\ UNCHANGED <<out, storageVars, rebuild, current_hash, saved_hash, documents,
                   handleVars, sessionVars, runVars, editVars, ghostVars>>

\* storage_context = StorageContext.from_defaults(persist_dir=storage_dir)
\* index = load_index_from_storage(storage_context)
LoadIndex ==
    /\ pc = "load"
    /\ \/ /\ stored.state # "none"
          /\ index' = [state |-> stored.state, docs |-> stored.docs]
          /\ Goto("return")
          /\ UNCHANGED <<out, storageVars, rebuild, current_hash, saved_hash, documents,
                         handleVars, sessionVars, runVars, editVars, ghostVars>>
       \/ Raise("load")

\* return index; self.index = self._build_or_load_index()
ReturnIndex ==
    /\ pc = "return"
    /\ self_index' = index
    /\ Goto("create_engine")
    /\ UNCHANGED <<storageVars, localVars, self_query_engine, sessionVars, runVars,
                   editVars, ghostVars, out>>

\* self.query_engine = self._create_query_engine()
CreateQueryEngine ==
    /\ pc = "create_engine"
    /\ \/ /\ self_query_engine' = [index |-> self_index, top_k |-> SimilarityTopK]
          /\ Goto("ready")
          /\ UNCHANGED <<out, storageVars, localVars, self_index, sessionVars, runVars,
                         editVars, ghostVars>>
       \/ Raise("create_engine")

(***************************************************************************)
(* The session.                                                            *)
(***************************************************************************)
\* print(ready banner)
Ready ==
    /\ pc = "ready"
    /\ out' = "ready"
    /\ readied' = TRUE
    /\ editedSinceReady' = FALSE
    /\ Goto("prompt")
    /\ UNCHANGED <<storageVars, processVars, runVars, corpus, edits, editedSinceHash,
                   branch, decidedOn, hashes, typed>>

\* except Exception as e: print(error); print(hint); the loop goes on
ReportError == out' = "error_hint" /\ Goto("prompt")

\* ReadInput that compares the line without lower()
ReadInputCaseSensitive ==
    /\ pc = "prompt"
    /\ inputs < MaxInputs
    /\ \/ \E line \in Inputs :
            \/ /\ line \in Sentinels
               /\ typed' = [n |-> typed.n + 1, line |-> line]
               /\ Exit(0, out)
            \/ /\ line \notin Sentinels
               /\ typed' = [n |-> typed.n + 1, line |-> line]
               /\ user_input' = line
               /\ inputs' = inputs + 1
               /\ Goto("query")
               /\ UNCHANGED <<out, storageVars, localVars, handleVars, queries,
                              queried_with, runVars, editVars, branch, readied,
                              decidedOn, hashes>>
       \/ /\ ReportError
          /\ inputs' = inputs + 1
          /\ UNCHANGED <<user_input, storageVars, localVars, handleVars, queries,
                         queried_with, runVars, editVars, ghostVars>>
       \/ Raise("interrupt_input")

\* ReadInput with input() outside the try: EOFError ends the process
ReadInputEOFUncaught ==
    /\ pc = "prompt"
    /\ inputs < MaxInputs
    /\ \/ \E line \in Inputs :
            \/ /\ Lower(line) \in Sentinels
               /\ typed' = [n |-> typed.n + 1, line |-> line]
               /\ Exit(0, out)
            \/ /\ Lower(line) \notin Sentinels
               /\ typed' = [n |-> typed.n + 1, line |-> line]
               /\ user_input' = line
               /\ inputs' = inputs + 1
               /\ Goto("query")
               /\ UNCHANGED <<out, storageVars, localVars, handleVars, queries,
                              queried_with, runVars, editVars, branch, readied,
                              decidedOn, hashes>>
       \/ Raise("prompt")
       \/ Raise("interrupt_input")

\* user_input = input(prompt); if user_input.lower() in ["exit", "quit"]: break
\* input() returns a line, raises EOFError or is interrupted from the keyboard
ReadInput ==
    /\ pc = "prompt"
    /\ inputs < MaxInputs
    /\ \/ \E line \in Inputs :
            \/ /\ Lower(line) \in Sentinels
               /\ typed' = [n |-> typed.n + 1, line |-> line]
               /\ Exit(0, out)
            \/ /\ Lower(line) \notin Sentinels
               /\ typed' = [n |-> typed.n + 1, line |-> line]
               /\ user_input' = line
               /\ inputs' = inputs + 1
               /\ Goto("query")
               /\ UNCHANGED <<out, storageVars, localVars, handleVars, queries,
                              queried_with, runVars, editVars, branch, readied,
                              decidedOn, hashes>>
       \/ /\ ReportError
          /\ inputs' = inputs + 1
          /\ UNCHANGED <<user_input, storageVars, localVars, handleVars, queries,
                         queried_with, runVars, editVars, ghostVars>>
       \/ Raise("interrupt_input")

\* Query outside any try: an Exception of the backend ends the process
QueryUncaught ==
    /\ pc = "query"
    /\ \/ /\ queries' = queries + 1
          /\ queried_with' = self_query_engine
          /\ out' = "answer"
          /\ Goto("prompt")
          /\ UNCHANGED <<storageVars, localVars, handleVars, user_input, inputs, runVars,
                         editVars, ghostVars>>
       \/ Raise("query")
       \/ Raise("interrupt_query")

\* Query that checks the corpus again and rewrites the sidecar
QueryRefreshing ==
    /\ pc = "query"
    /\ \/ /\ queries' = queries + 1
          /\ queried_with' = self_query_engine
          /\ hashes' = hashes + 1
          /\ sidecar' = SidecarDigest(GetDocumentsHash(corpus), starts)
          /\ \/ out' = "answer" /\ Goto("prompt")
             \/ ReportError
          /\ UNCHANGED <<storageExists, stored, localVars, handleVars, user_input, inputs,
                         runVars, editVars, branch, readied, decidedOn, typed>>
       \/ Raise("interrupt_query")

\* response = rag.query(user_input); print(answer)
\* RAGSystem.query: str(self.query_engine.query(question)).strip()
\* the call returns, raises an Exception or is interrupted from the keyboard
Query ==
    /\ pc = "query"
    /\ \/ /\ queries' = queries + 1
          /\ queried_with' = self_query_engine
          /\ \/ out' = "answer" /\ Goto("prompt")
             \/ ReportError
          /\ UNCHANGED <<storageVars, localVars, handleVars, user_input, inputs, runVars,
                         editVars, ghostVars>>
       \/ Raise("interrupt_query")

(***************************************************************************)
(* The environment.                                                        *)
(***************************************************************************)
\* the corpora one edit away: a file's content replaced, a file removed, a
\* file added
EditsOf(c) ==
    {[c EXCEPT ![k] = x] : k \in 1..Len(c), x \in FileContents}
    \cup {SubSeq(c, 1, k - 1) \o SubSeq(c, k + 1, Len(c)) : k \in 1..Len(c)}
    \cup {SubSeq(c, 1, k) \o <<x>> \o SubSeq(c, k + 1, Len(c)) :
            k \in (IF Len(c) < MaxFiles THEN 0..Len(c) ELSE {}), x \in FileContents}

\* the files of ./data are changed from outside
EditCorpus ==
    /\ edits < MaxEdits
    /\ edits' = edits + 1
    /\ \E c \in EditsOf(corpus) \ {corpus} : corpus' = c
    /\ editedSinceHash' = TRUE
    /\ editedSinceReady' = TRUE
    /\ UNCHANGED <<storageVars, processVars, runVars, ghostVars, pc, out, exitCode,
                   failedAt>>

Running == pc \notin {"start", "exited", "crashed"}

\* the process is stopped from outside, between two of its steps
Kill ==
    /\ Running
    /\ pc' = "crashed"
    /\ exitCode' = 137
    /\ Blank
    /\ UNCHANGED <<storageVars, runVars, editVars, ghostVars, out, failedAt>>

\* the program is started again: the filesystem stays, the process is new
Restart ==
    /\ pc \in {"exited", "crashed"}
    /\ starts < MaxStarts
    /\ starts' = starts + 1
    /\ apiKey' \in EnvKeys
    /\ prevReadied' = readied
    /\ pc' = "start"
    /\ out' = "none"
    /\ exitCode' = -1
    /\ branch' = "Unknown"
    /\ failedAt' = "none"
    /\ readied' = FALSE
    /\ hashes' = 0
    /\ typed' = NothingTyped
    /\ decidedOn' = [sinceHash |-> TRUE, sinceReady |-> TRUE]
    /\ UNCHANGED <<storageVars, editVars, processVars>>

Next ==
    \/ CheckConfig
    \/ ConfigureSettings
    \/ CheckStorage
    \/ ComputeCurrentHash
    \/ ReadSidecar
    \/ Branch
    \/ MakeDirs
    \/ ReadDocuments
    \/ BuildIndex
    \/ PersistBegin
    \/ PersistEnd
    \/ OpenSidecar
    \/ WriteSidecar
    \/ LoadIndex
    \/ ReturnIndex
    \/ CreateQueryEngine
    \/ Ready
    \/ ReadInput
    \/ Query
    \/ EditCorpus
    \/ Kill
    \/ Restart

Spec == Init /\ [][Next]_vars

(***************************************************************************)
(* Renames.  _get_documents_hash reads the files in the order os.walk      *)
(* lists them and never reads a name.  os.walk lists a directory in the    *)
(* order the filesystem returns its entries, which follows the names: a    *)
(* file that got another name can come at any place of the listing.  The   *)
(* corpora here are files of two different one-byte contents, so that two  *)
(* listings of the same files can be told apart; the only change to ./data *)
(* is a rename.                                                            *)
(***************************************************************************)
RenameContents == {<<1>>, <<2>>}

RenameCorpora == SeqsUpTo(RenameContents, MaxFiles)

\* the listings after file k got another name
RenamesOf(c) ==
    {LET rest == SubSeq(c, 1, k - 1) \o SubSeq(c, k + 1, Len(c))
     IN  SubSeq(rest, 1, j) \o <<c[k]>> \o SubSeq(rest, j + 1, Len(rest)) :
        k \in 1..Len(c), j \in 0..(Len(c) - 1)}

\* a file of ./data gets another name from outside, no content is touched
RenameFile ==
    /\ edits < MaxEdits
    /\ edits' = edits + 1
    /\ \E c \in RenamesOf(corpus) : corpus' = c
    /\ editedSinceHash' = TRUE
    /\ editedSinceReady' = TRUE
    /\ UNCHANGED <<storageVars, processVars, runVars, ghostVars, pc, out, exitCode,
                   failedAt>>

RenameInit == InitOver(RenameCorpora)

RenameNext ==
    \/ CheckConfig
    \/ ConfigureSettings
    \/ CheckStorage
    \/ ComputeCurrentHash
    \/ ReadSidecar
    \/ Branch
    \/ MakeDirs
    \/ ReadDocuments
    \/ BuildIndex
    \/ PersistBegin
    \/ PersistEnd
    \/ OpenSidecar
    \/ WriteSidecar
    \/ LoadIndex
    \/ ReturnIndex
    \/ CreateQueryEngine
    \/ Ready
    \/ ReadInput
    \/ Query
    \/ RenameFile
    \/ Kill
    \/ Restart

RenameSpec == RenameInit /\ [][RenameNext]_vars

(***************************************************************************)
(* Properties.                                                             *)
(***************************************************************************)
\* the sidecar holds text that f.read() returns
SidecarReadable == sidecar.kind \in {"empty", "digest"}

\* the branch of "if rebuild" has been passed by the running process
Decided == Running /\ pc \notin {"init", "check_exists", "hash", "read_sidecar", "branch"}

\* C1, as amended: when the freshness check of _build_or_load_index completes,
\* rebuild is chosen iff the storage directory is absent, or the sidecar is
\* missing, or the sidecar's content differs from the fingerprint the check
\* computed (the fingerprint of the corpus as long as it is not edited); load
\* is chosen iff the directory is present and the sidecar's content equals
\* that fingerprint; exactly one of the two branches is then taken.  A run
\* whose check raises (fingerprinting, or a sidecar that cannot be read)
\* takes neither.
C1_DecisionWhenCheckCompletes ==
    /\ (pc \in {"read_sidecar", "branch"} /\ storageExists /\ ~editedSinceHash)
          => current_hash = GetDocumentsHash(corpus)
    /\ pc = "branch" =>
          /\ rebuild <=> \/ ~storageExists
                         \/ storageExists /\ sidecar.kind = "absent"
                         \/ SidecarReadable /\ Text(sidecar) # current_hash
          /\ ~rebuild <=> (storageExists /\ SidecarReadable /\ Text(sidecar) = current_hash)
          /\ branch = "Unknown"
    /\ Decided => /\ branch \in {"Stale", "Fresh"}
                  /\ branch = "Stale" <=> rebuild
    /\ (pc = "crashed" /\ failedAt \in {"hash", "read_sidecar"}) => branch = "Unknown"
    /\ (pc = "crashed" /\ failedAt \notin {"none", "init", "hash", "read_sidecar"})
          => branch \in {"Stale", "Fresh"}

\* C1 witness: the check completed on a store whose sidecar differs from the
\* fingerprint, and rebuild was chosen
C1_Witness ==
    /\ pc = "branch"
    /\ rebuild
    /\ storageExists
    /\ sidecar.kind = "digest"
    /\ Text(sidecar) # current_hash

\* C1 as stated: every run that entered _build_or_load_index and ended by an
\* exception of its own had taken one of the two branches
C1_OnePathInEveryStartup ==
    (pc = "crashed" /\ failedAt \notin {"none", "init"}) => branch \in {"Stale", "Fresh"}

\* C2, as amended: if the previous run reached the ready banner and the corpus
\* was not edited after that run last computed the fingerprint, this run
\* chooses the load branch and writes nothing to storage
C2_FreshAfterUnchangedCorpus ==
    (prevReadied /\ branch # "Unknown" /\ ~decidedOn.sinceHash)
        => /\ branch = "Fresh"
           /\ stored.run < starts
           /\ sidecar.run < starts

\* C2 witness: a second run on an unedited corpus took the load branch
C2_Witness ==
    /\ prevReadied
    /\ ~decidedOn.sinceHash
    /\ branch = "Fresh"
    /\ pc = "prompt"

\* C2 as stated: if the previous run reached the ready banner and the corpus
\* was not edited after that banner, this run chooses the load branch
C2_FreshAfterReady ==
    (prevReadied /\ branch # "Unknown" /\ ~decidedOn.sinceReady) => branch = "Fresh"

\* C3 as stated: the digest a rebuild writes to the sidecar is the
\* fingerprint of the documents the index it persisted was built from
C3_SidecarOfIndexedCorpus ==
    (sidecar.kind = "digest" /\ sidecar.run >= 1 /\ sidecar.run = stored.run)
        => Text(sidecar) = GetDocumentsHash(stored.docs)

\* the sidecar holds nothing newer than the index beside it
C4_NeverNewer ==
    SidecarReadable =>
        /\ sidecar.run <= stored.run
        /\ sidecar.run = stored.run => stored.state = "complete"

\* the sidecar changes only in the rebuild branch, before the session, once
\* the index this run built is whole on storage
C4_WriteStep ==
    sidecar' # sidecar =>
        /\ pc \in {"open_sidecar", "write_sidecar"}
        /\ branch = "Stale"
        /\ ~readied
        /\ queries = 0
        /\ stored = StoredIndex("complete", index.docs, starts)
        /\ stored' = stored

\* C4: the sidecar is written only in the rebuild branch, after the index
\* was built and persisted in full, never on the load path or in the
\* session; in every state, also when the process has stopped part-way, the
\* sidecar is not newer than the index on storage
C4_PersistOrdering == []C4_NeverNewer /\ [][C4_WriteStep]_vars

\* C4 witness: the process stopped part-way through persisting a new index;
\* the sidecar is still the one an earlier rebuild wrote
C4_Witness ==
    /\ pc = "crashed"
    /\ branch = "Stale"
    /\ stored.state = "partial"
    /\ sidecar.kind = "digest"
    /\ sidecar.run < stored.run

\* C5 as stated: with the storage directory present, a sidecar that cannot
\* be read never ends the startup (it means rebuild)
C5_UnreadableSidecarNotFatal ==
    (storageExists /\ sidecar.kind = "unreadable") => failedAt # "read_sidecar"

\* the positions of the session loop
SessionPcs == {"prompt", "query"}

\* the query that just ran printed no answer: it failed
C6_FailureStep ==
    (pc = "query" /\ queries' = queries + 1 /\ out' # "answer") =>
        /\ out' = "error_hint"
        /\ pc' = "prompt"
        /\ exitCode' = -1
        /\ UNCHANGED <<self_index, self_query_engine, storageVars>>

\* the session holds the handle and the engine made at startup, and the
\* last query ran against them
C6_SameHandle ==
    pc \in SessionPcs =>
        /\ self_index = index
        /\ self_index.state # "none"
        /\ self_query_engine = [index |-> self_index, top_k |-> SimilarityTopK]
        /\ queries > 0 => queried_with = self_query_engine

\* C6: an Exception of a query never ends the process: it is reported with
\* the hint, the session is back at its prompt, and the index handle and the
\* query engine are the ones held before, which the next query uses
C6_SessionResilience ==
    /\ [](failedAt # "query")
    /\ []C6_SameHandle
    /\ [][C6_FailureStep]_vars

\* C6 witness: the first query failed and was reported; the second line was
\* read and its query is about to run on the same engine
C6_Witness ==
    /\ pc = "query"
    /\ out = "error_hint"
    /\ typed.n = 2
    /\ inputs = 2
    /\ queries = 1
    /\ queried_with = self_query_engine

\* a step of a process that has printed the ready banner
C7_SessionStep ==
    (readied /\ Running) =>
        /\ UNCHANGED <<storageVars, hashes, branch>>
        /\ pc' \in SessionPcs => UNCHANGED <<self_index, self_query_engine>>
        /\ pc' \in SessionPcs \cup {"exited", "crashed"}

\* C7: once the ready banner is printed, no query and no corpus edit makes
\* the process compute the fingerprint, rebuild, reload or write to storage,
\* and the index handle stays the one chosen at startup
C7_OneShotDecision == [][C7_SessionStep]_vars

\* C7 witness: the corpus was edited during the session and a query ran
\* after it; the sidecar no longer matches the corpus
C7_Witness ==
    /\ pc = "prompt"
    /\ editedSinceReady
    /\ queries >= 1
    /\ sidecar.kind = "digest"
    /\ Text(sidecar) # GetDocumentsHash(corpus)

\* the statements of the startup at which an exception ends the process
StartupSites ==
    {"init", "hash", "read_sidecar", "makedirs", "read_docs", "build", "persist",
     "persisting", "open_sidecar", "write_sidecar", "load", "create_engine"}

\* a run that failed at startup is gone without the banner; without the
\* banner there is no prompt and no query; with it, the rebuild or the load
\* was completed and the handle is over what is on storage
C8_ReadyState ==
    /\ (failedAt \in StartupSites) => (pc = "crashed" /\ ~readied)
    /\ ~readied =>
          /\ pc \notin SessionPcs
          /\ queries = 0
          /\ inputs = 0
          /\ typed.n = 0
          /\ out \notin {"ready", "answer", "error_hint"}
    /\ readied => branch \in {"Stale", "Fresh"}
    /\ (readied /\ branch = "Stale") =>
          /\ stored.state = "complete"
          /\ stored.run = starts
          /\ sidecar.kind = "digest"
          /\ sidecar.run = starts
    /\ (readied /\ Running) =>
          /\ self_index.state # "none"
          /\ self_index.docs = stored.docs
          /\ self_query_engine.index = self_index

\* C8: a failure of fingerprinting, reading the documents, building,
\* persisting, writing the sidecar or loading ends the process before the
\* ready banner: no prompt, no query; the banner is printed only after a
\* completed build, persist and sidecar write, or a completed load
C8_StartupFailuresFatal ==
    /\ []C8_ReadyState
    /\ [][pc = "crashed" => pc' \in {"crashed", "start"}]_vars

\* C8 witness: loading the persisted index failed and the process ended
\* without the banner
C8_Witness ==
    /\ pc = "crashed"
    /\ failedAt = "load"
    /\ branch = "Fresh"
    /\ ~readied

\* a run without the key has done nothing but report and exit
C9_NoWork ==
    (apiKey # "set" /\ pc # "start") =>
        /\ pc = "exited"
        /\ exitCode = 1
        /\ out = "config_error"
        /\ hashes = 0
        /\ branch = "Unknown"
        /\ ~readied
        /\ self_index = NoIndex
        /\ self_query_engine = NoEngine
        /\ typed.n = 0

\* C9: with GEMINI_API_KEY unset or empty the program reports the error and
\* exits with status 1 before the RAG system is constructed: no fingerprint,
\* no index, no prompt, and storage and sidecar stay as they were
C9_ConfigMissingFatal ==
    /\ []C9_NoWork
    /\ [][apiKey # "set" => UNCHANGED storageVars]_vars

\* C9 witness: the key is empty, the program has exited with the error and
\* the existing storage is untouched
C9_Witness ==
    /\ apiKey = "empty"
    /\ pc = "exited"
    /\ out = "config_error"
    /\ storageExists
    /\ sidecar.kind = "digest"

\* the lines of Inputs that are "exit" or "quit" up to case
SentinelLines == { <<"e", "x", "i", "t">>, <<"Q", "u", "I", "T">> }

\* a line was typed at the prompt
C10_LineStep ==
    typed'.n = typed.n + 1 =>
        IF typed'.line \in SentinelLines
        THEN pc' = "exited" /\ exitCode' = 0 /\ queries' = 0 /\ out' = out
        ELSE pc' = "query" /\ user_input' = typed'.line /\ queries' = queries

\* the query of a question returns or raises an Exception (the process is
\* not interrupted or stopped)
C10_QueryStep ==
    (pc = "query" /\ pc' \notin {"query", "crashed"})
        => (queries' = queries + 1 /\ pc' = "prompt")

\* every question typed so far was queried exactly once
C10_OneQueryPerQuestion ==
    /\ pc = "prompt" => queries = typed.n
    /\ pc = "query" => queries = typed.n - 1

\* C10: a line equal to exit or quit up to case ends the session without a
\* query; every other line, also the empty one and a sentinel with
\* surrounding whitespace, is a question that invokes the query pipeline
\* exactly once, after which the session prompts again
C10_SentinelsAndQuestions ==
    /\ []C10_OneQueryPerQuestion
    /\ [][C10_LineStep]_vars
    /\ [][C10_QueryStep]_vars

\* C10 witness: " exit" was typed, queried once, and the session is at its
\* prompt again
C10_Witness ==
    /\ pc = "prompt"
    /\ typed.line = <<" ", "e", "x", "i", "t">>
    /\ typed.n = 1
    /\ queries = 1

\* the fingerprint does not change when a file gets another name
C11_SameFingerprint ==
    [][GetDocumentsHash(corpus') = GetDocumentsHash(corpus)]_vars

\* a run that follows a run that reached the ready banner chooses the load
\* branch, whatever files got another name in between
C11_FreshAfterRenames ==
    (prevReadied /\ branch # "Unknown") => branch = "Fresh"

\* C11 as stated: with no file's content changed, a rename leaves the
\* fingerprint of _get_documents_hash as it was, and the startup after a
\* successful startup and only renames chooses the load branch
C11_RenameIsNoOp == C11_SameFingerprint /\ []C11_FreshAfterRenames

\* C12 as stated: when the startup compares the fingerprint of the corpus
\* with the sidecar of a completed rebuild of a corpus of the same files in
\* the same order, and the content of at least one file differs between the
\* two, the two fingerprints differ and the startup chooses the rebuild
C12_AnyEditRebuilds ==
    ( /\ pc = "branch"
      /\ stored.state = "complete"
      /\ saved_hash = GetDocumentsHash(stored.docs)
      /\ current_hash = GetDocumentsHash(corpus)
      /\ Len(corpus) = Len(stored.docs)
      /\ corpus # stored.docs )
        => (current_hash # saved_hash /\ rebuild)

\* C13 as stated: whatever startups, edits, failures and interruptions came
\* before, a startup takes the load branch only onto a store whose index was
\* persisted in full and whose sidecar was written by the same completed
\* rebuild; what an uncompleted rebuild left is judged stale
C13_NoPartialIndexLoaded ==
    (pc = "load") => (stored.state = "complete" /\ stored.run = sidecar.run)

\* the session loop is left by the program itself (the process is not
\* stopped from outside)
C14_LeaveStep == pc \in SessionPcs /\ pc' \notin SessionPcs /\ exitCode' # 137

\* a sentinel line was typed and the process exits with status 0
C14_SentinelStep ==
    typed'.n = typed.n + 1 /\ typed'.line \in SentinelLines /\ pc' = "exited"
        /\ exitCode' = 0

\* C14 as stated: the session loop is left only through a sentinel input
C14_LeftOnlyBySentinel == [][C14_LeaveStep => C14_SentinelStep]_vars

\* KeyboardInterrupt, which "except Exception" does not catch, ends the
\* process with a traceback
C14_InterruptStep ==
    pc' = "crashed" /\ exitCode' = 1 /\ out' = "traceback"
        /\ failedAt' \in {"interrupt_input", "interrupt_query"}

\* input() raised EOFError: no line was read
C14_EndOfInputStep == pc = "prompt" /\ inputs' = inputs + 1 /\ typed' = typed

\* a run that reached its session and is over ended on a sentinel line, on a
\* keyboard interrupt, or was stopped from outside
C14_HowSessionsEnd ==
    /\ (readied /\ pc = "exited") => (exitCode = 0 /\ typed.line \in SentinelLines)
    /\ (readied /\ pc = "crashed") =>
            \/ exitCode = 137
            \/ failedAt \in {"interrupt_input", "interrupt_query"}

\* C14: the program itself leaves the session loop only on a sentinel line
\* or on a keyboard interrupt; an end of input at the prompt is caught and
\* reported like a query failure, with the index handle and the query engine
\* as they were and no query run, and the loop prompts again
C14_EndOfInputKeepsSession ==
    /\ []C14_HowSessionsEnd
    /\ [][C14_LeaveStep => (C14_SentinelStep \/ C14_InterruptStep)]_vars
    /\ [][C14_EndOfInputStep =>
            /\ pc' = "prompt"
            /\ out' = "error_hint"
            /\ queries' = queries
            /\ UNCHANGED handleVars]_vars

\* C14 witness: the input ended, the failure was reported, the loop prompted
\* again, the read failed again and the session is still at its prompt
C14_Witness ==
    /\ pc = "prompt"
    /\ readied
    /\ typed.n = 0
    /\ inputs = 2
    /\ out = "error_hint"

====
